---- MODULE Spec2Model ----
(***************************************************************************)
(* Model of the Derstand interpreter (src/src/main.rs): the single-pass    *)
(* compiler with its bracket jump table, and the execution loop over the   *)
(* byte tape.  Positions (source positions, program counter, jump-table    *)
(* indices, tape indices) are 0-based as in the source; a TLA+ sequence    *)
(* holds the element of index i at i + 1.                                  *)
(***************************************************************************)
EXTENDS Integers, Sequences, FiniteSets, TLC

\* ------------------------------------------------------------------ bounds

\* Number of tape cells of the model (the program's tape has 30000).
MEMORY_SIZE == 3

\* Longest source over BracketChars compiled on a fresh interpreter.
MaxSrcLen == 4

\* Longest source over the whole alphabet compiled on a fresh interpreter.
MaxAnyLen == 3

\* Longest source over the whole alphabet, beside Examples, in a sequence
\* of calls.
MaxShortLen == 1

\* Longest source without brackets, beside Examples, executed under fair
\* scheduling of execute's loop.
MaxStraightLen == 2

\* Number of compile and execute calls in one behaviour.
MaxCalls == 3

\* Longest output buffer; an Output instruction that would make it longer
\* is not taken.
MaxOutput == 3

\* Steps of the reference execution RunPure.
RunFuel == 12

\* ------------------------------------------------------------ the machine

\* A cell is a u8.
CellMod == 256

Cell == 0 .. (CellMod - 1)

\* The 12 instruction symbols, and one character that is none of them.
SymbolChars == {">", "<", "+", "-", ".", ",", "[", "]", "#", "$", "%", "&"}

CommentChar == "x"

Chars == SymbolChars \cup {CommentChar}

BracketChars == {"[", "]", "+", ".", CommentChar}

\* The instruction compile pushes for a symbol that is not a bracket.
SimpleInstruction(c) ==
    CASE c = ">" -> "Right"
      [] c = "<" -> "Left"
      [] c = "+" -> "Increment"
      [] c = "-" -> "Decrement"
      [] c = "." -> "Output"
      [] c = "," -> "Input"
      [] c = "#" -> "Zero"
      [] c = "$" -> "Copy"
      [] c = "%" -> "MoveHigh"
      [] c = "&" -> "MoveLow"

VARIABLES
    memory,         \* [0 .. MEMORY_SIZE-1 -> Cell]
    pointer,        \* index of the active cell
    instructions,   \* the compiled program
    to_close,       \* jump_table.to_close
    to_open,        \* jump_table.to_open
    input_buffer,   \* bytes queued for the Input instruction
    output_buffer,  \* bytes emitted by the current execution
    pc,             \* execute's program counter
    phase,          \* "idle", or "running" inside execute's loop
    result,         \* what the last compile or execute call returned
    compiled,       \* what the last compile call returned: its kind
    src,            \* the source last handed to compile
    calls,          \* number of compile and execute calls begun
    start_memory,   \* the tape when the last execute call began
    end_memory,     \* the tape when the last execute call returned
    recompiled,     \* no execute call returned since the last compile (or new)
    emitted,        \* cell values at the Output instructions of this execution
    last_read       \* what this execution's last read of the live input gave

vars == <<memory, pointer, instructions, to_close, to_open, input_buffer,
          output_buffer, pc, phase, result, compiled, src, calls, start_memory,
          end_memory, recompiled, emitted, last_read>>

\* ---------------------------------------------------------------- compile

\* Clear that keeps the vector.
ClearNothing(v) == v

\* Vec::clear.
Clear(v) == << >>

\* Grow pushing one element at most.
GrowOnce(v, n) == IF Len(v) <= n THEN Append(v, 0) ELSE v

\* while v.len() <= n { v.push(0) }
Grow(v, n) ==
    IF Len(v) <= n THEN v \o [k \in 1 .. (n + 1 - Len(v)) |-> 0] ELSE v

Front(s) == SubSeq(s, 1, Len(s) - 1)

OkResult(op) == [op |-> op, kind |-> "Ok", pos |-> -1]

\* UnmatchedClosePos reporting the instruction position.
UnmatchedCloseInstr(pos, pushed) == Len(pushed) - 1

\* The position compile reports for a closing bracket with no pending
\* opening bracket: pos is its place in source.chars().enumerate(), pushed
\* the program with its instruction appended.
UnmatchedClosePos(pos, pushed) == pos

\* UnmatchedOpenPos reporting the most recent opening bracket.
UnmatchedOpenLast(bracket_stack) == bracket_stack[Len(bracket_stack)]

\* The position compile reports for an opening bracket left unmatched.
UnmatchedOpenPos(bracket_stack) == bracket_stack[1]

\* One turn of the loop over source.chars().enumerate(): character c at
\* position pos.  st holds instructions, to_close, to_open, bracket_stack
\* and result, which is NoResult until compile returns.
NoResult == [op |-> "compile", kind |-> "none", pos |-> -1]

\* CompileChar matching a closing bracket with the oldest pending opening
\* bracket.
CompileCharOldest(c, pos, st) ==
    IF c = "["
    THEN [st EXCEPT !.instructions = Append(@, "JumpIfZero"),
                    !.bracket_stack = Append(@, pos)]
    ELSE IF c = "]"
    THEN LET pushed == Append(st.instructions, "JumpIfNotZero") IN
         IF st.bracket_stack = << >>
         THEN [st EXCEPT !.instructions = pushed,
                         !.result = [op |-> "compile",
                                     kind |-> "UnmatchedClose",
                                     pos |-> UnmatchedClosePos(pos, pushed)]]
         ELSE LET open_pos == st.bracket_stack[1]
                  tc == Grow(st.to_close, open_pos)
                  to == Grow(st.to_open, pos)
              IN  [st EXCEPT !.instructions = pushed,
                             !.to_close = [tc EXCEPT ![open_pos + 1] = pos],
                             !.to_open = [to EXCEPT ![pos + 1] = open_pos],
                             !.bracket_stack = Tail(@)]
    ELSE IF c \in SymbolChars
    THEN [st EXCEPT !.instructions = Append(@, SimpleInstruction(c))]
    ELSE st

CompileChar(c, pos, st) ==
    IF c = "["
    THEN [st EXCEPT !.instructions = Append(@, "JumpIfZero"),
                    !.bracket_stack = Append(@, pos)]
    ELSE IF c = "]"
    THEN LET pushed == Append(st.instructions, "JumpIfNotZero") IN
         IF st.bracket_stack = << >>
         THEN [st EXCEPT !.instructions = pushed,
                         !.result = [op |-> "compile",
                                     kind |-> "UnmatchedClose",
                                     pos |-> UnmatchedClosePos(pos, pushed)]]
         ELSE LET open_pos == st.bracket_stack[Len(st.bracket_stack)]
                  tc == Grow(st.to_close, open_pos)
                  to == Grow(st.to_open, pos)
              IN  [st EXCEPT !.instructions = pushed,
                             !.to_close = [tc EXCEPT ![open_pos + 1] = pos],
                             !.to_open = [to EXCEPT ![pos + 1] = open_pos],
                             !.bracket_stack = Front(@)]
    ELSE IF c \in SymbolChars
    THEN [st EXCEPT !.instructions = Append(@, SimpleInstruction(c))]
    ELSE st

\* CompileEnd dropping the program when a bracket is left open.
CompileEndDropping(st) ==
    IF st.bracket_stack # << >>
    THEN [st EXCEPT !.instructions = << >>,
                    !.result = [op |-> "compile", kind |-> "UnmatchedOpen",
                                pos |-> UnmatchedOpenPos(st.bracket_stack)]]
    ELSE [st EXCEPT !.result = OkResult("compile")]

\* The check after the loop.
CompileEnd(st) ==
    IF st.bracket_stack # << >>
    THEN [st EXCEPT !.result = [op |-> "compile", kind |-> "UnmatchedOpen",
                                pos |-> UnmatchedOpenPos(st.bracket_stack)]]
    ELSE [st EXCEPT !.result = OkResult("compile")]

\* The turns of the loop for the positions lo .. hi-1, in order, up to the
\* one where compile returns an error.
RECURSIVE CompileLoop(_, _, _, _)
CompileLoop(source, lo, hi, st) ==
    IF lo >= hi
    THEN st
    ELSE IF hi = lo + 1
    THEN CompileChar(source[lo + 1], lo, st)
    ELSE LET mid == (lo + hi) \div 2
             left == CompileLoop(source, lo, mid, st)
         IN  IF left.result # NoResult
             THEN left
             ELSE CompileLoop(source, mid, hi, left)

\* The loop over the whole source and the check after it: what compile
\* leaves and returns.
CompileFrom(source, st) ==
    LET end == CompileLoop(source, 0, Len(source), st) IN
    IF end.result # NoResult THEN end ELSE CompileEnd(end)

\* The local state compile starts its loop with.
CompileStart(instrs, tc, to) ==
    [instructions |-> instrs, to_close |-> tc, to_open |-> to,
     bracket_stack |-> << >>, result |-> NoResult]

\* compile(source) on an interpreter holding the given program and tables.
CompileOn(instrs, tc, to, source) ==
    CompileFrom(source, CompileStart(Clear(instrs), Clear(tc), Clear(to)))

\* ---------------------------------------------------------------- execute

\* What one read of the live input source gives: a byte, end of stream, or
\* a read error.
InBytes == {1, 255}

InputOutcomes ==
    [kind : {"byte"}, byte : InBytes]
        \cup {[kind |-> "eof", byte |-> 0], [kind |-> "error", byte |-> 0]}

\* WrappingAdd1 that saturates.
SaturatingAdd1(v) == IF v = CellMod - 1 THEN v ELSE v + 1

\* u8::wrapping_add(1) and u8::wrapping_sub(1).
WrappingAdd1(v) == (v + 1) % CellMod

WrappingSub1(v) == (v + CellMod - 1) % CellMod

\* DoRight without the test of the bound.
DoRightUnclamped(m) == [m EXCEPT !.pointer = @ + 1, !.pc = @ + 1]

\* One arm of execute's match.  m holds memory, pointer, pc, output_buffer,
\* input_buffer and status: "Ok" while the loop goes on, else the error
\* execute returns.
DoRight(m) ==
    [m EXCEPT !.pointer = IF @ < MEMORY_SIZE - 1 THEN @ + 1 ELSE @,
              !.pc = @ + 1]

DoLeft(m) ==
    [m EXCEPT !.pointer = IF @ > 0 THEN @ - 1 ELSE @,
              !.pc = @ + 1]

DoIncrement(m) ==
    [m EXCEPT !.memory[m.pointer] = WrappingAdd1(@), !.pc = @ + 1]

DoDecrement(m) ==
    [m EXCEPT !.memory[m.pointer] = WrappingSub1(@), !.pc = @ + 1]

\* DoOutput emitting the pointer.
DoOutputPointer(m) ==
    [m EXCEPT !.output_buffer = Append(@, m.pointer), !.pc = @ + 1]

DoOutput(m) ==
    [m EXCEPT !.output_buffer = Append(@, m.memory[m.pointer]), !.pc = @ + 1]

\* input_buffer.pop() takes the last byte; an empty buffer reads inp.
\* DoInput keeping the byte it read in the input buffer.
DoInputQueueing(m, inp) ==
    IF m.input_buffer # << >>
    THEN [m EXCEPT !.memory[m.pointer] = m.input_buffer[Len(m.input_buffer)],
                   !.input_buffer = Front(@),
                   !.pc = @ + 1]
    ELSE IF inp.kind = "error"
    THEN [m EXCEPT !.status = "InputError"]
    ELSE [m EXCEPT !.memory[m.pointer] =
                       IF inp.kind = "byte" THEN inp.byte ELSE 0,
                   !.input_buffer =
                       IF inp.kind = "byte" THEN Append(@, inp.byte) ELSE @,
                   !.pc = @ + 1]

\* DoInput failing at end of input.
DoInputEofFails(m, inp) ==
    IF m.input_buffer # << >>
    THEN [m EXCEPT !.memory[m.pointer] = m.input_buffer[Len(m.input_buffer)],
                   !.input_buffer = Front(@),
                   !.pc = @ + 1]
    ELSE IF inp.kind # "byte"
    THEN [m EXCEPT !.status = "InputError"]
    ELSE [m EXCEPT !.memory[m.pointer] = inp.byte, !.pc = @ + 1]

DoInput(m, inp) ==
    IF m.input_buffer # << >>
    THEN [m EXCEPT !.memory[m.pointer] = m.input_buffer[Len(m.input_buffer)],
                   !.input_buffer = Front(@),
                   !.pc = @ + 1]
    ELSE IF inp.kind = "error"
    THEN [m EXCEPT !.status = "InputError"]
    ELSE [m EXCEPT !.memory[m.pointer] =
                       IF inp.kind = "byte" THEN inp.byte ELSE 0,
                   !.pc = @ + 1]

\* DoJumpIfZero with the bound test off by one.
DoJumpIfZeroStrict(m, tc) ==
    IF m.memory[m.pointer] = 0
    THEN IF m.pc + 1 < Len(tc)
         THEN [m EXCEPT !.pc = tc[m.pc + 1] + 1]
         ELSE [m EXCEPT !.status = "JumpTableOOB"]
    ELSE [m EXCEPT !.pc = @ + 1]

DoJumpIfZero(m, tc) ==
    IF m.memory[m.pointer] = 0
    THEN IF m.pc < Len(tc)
         THEN [m EXCEPT !.pc = tc[m.pc + 1] + 1]
         ELSE [m EXCEPT !.status = "JumpTableOOB"]
    ELSE [m EXCEPT !.pc = @ + 1]

\* DoJumpIfNotZero jumping to the opening bracket's own position.
DoJumpIfNotZeroBack(m, to) ==
    IF m.memory[m.pointer] # 0
    THEN IF m.pc < Len(to)
         THEN [m EXCEPT !.pc = to[m.pc + 1] + 2]
         ELSE [m EXCEPT !.status = "JumpTableOOB"]
    ELSE [m EXCEPT !.pc = @ + 1]

DoJumpIfNotZero(m, to) ==
    IF m.memory[m.pointer] # 0
    THEN IF m.pc < Len(to)
         THEN [m EXCEPT !.pc = to[m.pc + 1] + 1]
         ELSE [m EXCEPT !.status = "JumpTableOOB"]
    ELSE [m EXCEPT !.pc = @ + 1]

\* DoZero staying at its instruction.
DoZeroStaying(m) == [m EXCEPT !.memory[m.pointer] = 0]

DoZero(m) == [m EXCEPT !.memory[m.pointer] = 0, !.pc = @ + 1]

\* DoCopy copying from the next cell.
DoCopyFromNext(m) ==
    IF m.pointer < MEMORY_SIZE - 1
    THEN [m EXCEPT !.memory[m.pointer] = m.memory[m.pointer + 1], !.pc = @ + 1]
    ELSE [m EXCEPT !.pc = @ + 1]

DoCopy(m) ==
    IF m.pointer < MEMORY_SIZE - 1
    THEN [m EXCEPT !.memory[m.pointer + 1] = m.memory[m.pointer], !.pc = @ + 1]
    ELSE [m EXCEPT !.pc = @ + 1]

DoMoveHigh(m) == [m EXCEPT !.pointer = MEMORY_SIZE - 1, !.pc = @ + 1]

DoMoveLow(m) == [m EXCEPT !.pointer = 0, !.pc = @ + 1]

\* The body of execute's while loop: the instruction at m.pc.
Step(instrs, tc, to, m, inp) ==
    LET i == instrs[m.pc + 1] IN
    CASE i = "Right" -> DoRight(m)
      [] i = "Left" -> DoLeft(m)
      [] i = "Increment" -> DoIncrement(m)
      [] i = "Decrement" -> DoDecrement(m)
      [] i = "Output" -> DoOutput(m)
      [] i = "Input" -> DoInput(m, inp)
      [] i = "JumpIfZero" -> DoJumpIfZero(m, tc)
      [] i = "JumpIfNotZero" -> DoJumpIfNotZero(m, to)
      [] i = "Zero" -> DoZero(m)
      [] i = "Copy" -> DoCopy(m)
      [] i = "MoveHigh" -> DoMoveHigh(m)
      [] i = "MoveLow" -> DoMoveLow(m)

\* BeginMachine clearing the tape as well.
BeginMachineZeroed(mem, inbuf) ==
    [memory |-> [a \in DOMAIN mem |-> 0], pointer |-> 0, pc |-> 0,
     output_buffer |-> << >>, input_buffer |-> inbuf, status |-> "Ok"]

\* The start of execute: the pointer and the output buffer are reset.
BeginMachine(mem, inbuf) ==
    [memory |-> mem, pointer |-> 0, pc |-> 0, output_buffer |-> << >>,
     input_buffer |-> inbuf, status |-> "Ok"]

\* --------------------------------------------------------------- actions

\* Sequences over S of length at most n.
SeqsUpTo(S, n) == UNION {[1 .. k -> S] : k \in 0 .. n}

\* The programs of the specification's testable properties, and programs
\* that reach the tape's ends, read input, and leave brackets unmatched.
Examples ==
    {<<"+", "+", ".">>,
     <<"+", "[", "-", "]">>,
     <<"+", "$", ">", ".">>,
     <<"%", ">", "+", ".">>,
     <<"%", "$", "<", "#">>,
     <<"-", "&", ",", ".">>,
     <<"x", "[", ".", "]">>,
     <<"+", "x", "[", "-", "]">>,
     <<"[", "[", "x">>,
     <<"+", "]", "[">>,
     <<",", "[", ".", "-", "]">>}

Sources == SeqsUpTo(Chars, MaxShortLen) \cup Examples

FreshSources ==
    SeqsUpTo(BracketChars, MaxSrcLen) \cup SeqsUpTo(Chars, MaxAnyLen)
        \cup Examples

ZeroTape == [a \in 0 .. (MEMORY_SIZE - 1) |-> 0]

\* Values an earlier execution left in cell 0.
StartCells == {0, 1, 255}

StartTapes == {[ZeroTape EXCEPT ![0] = v] : v \in StartCells}

\* No read of the live input source yet.
NoRead == [kind |-> "none", byte |-> 0]

\* DerstandInterpreter::new()
Init ==
    /\ memory = ZeroTape
    /\ pointer = 0
    /\ instructions = << >>
    /\ to_close = << >>
    /\ to_open = << >>
    /\ input_buffer = << >>
    /\ output_buffer = << >>
    /\ pc = 0
    /\ phase = "idle"
    /\ result = [op |-> "new", kind |-> "Ok", pos |-> -1]
    /\ compiled = "none"
    /\ src = << >>
    /\ calls = 0
    /\ start_memory = ZeroTape
    /\ end_memory = ZeroTape
    /\ recompiled = TRUE
    /\ emitted = << >>
    /\ last_read = NoRead

\* Compile resetting the data pointer and the output, as execute does.
CompileResetting(source) ==
    /\ phase = "idle"
    /\ calls < MaxCalls
    /\ calls' = calls + 1
    /\ \E r \in {CompileOn(instructions, to_close, to_open, source)} :
        /\ instructions' = r.instructions
        /\ to_close' = r.to_close
        /\ to_open' = r.to_open
        /\ result' = r.result
        /\ compiled' = r.result.kind
    /\ src' = source
    /\ recompiled' = TRUE
    /\ pointer' = 0
    /\ output_buffer' = << >>
    /\ UNCHANGED <<memory, input_buffer, pc, phase, start_memory, end_memory,
                   emitted, last_read>>

\* compile(source)
Compile(source) ==
    /\ phase = "idle"
    /\ calls < MaxCalls
    /\ calls' = calls + 1
    /\ \E r \in {CompileOn(instructions, to_close, to_open, source)} :
        /\ instructions' = r.instructions
        /\ to_close' = r.to_close
        /\ to_open' = r.to_open
        /\ result' = r.result
        /\ compiled' = r.result.kind
    /\ src' = source
    /\ recompiled' = TRUE
    /\ UNCHANGED <<memory, pointer, input_buffer, output_buffer, pc, phase,
                   start_memory, end_memory, emitted, last_read>>

\* execute(), up to its loop.
ExecuteBegin ==
    /\ phase = "idle"
    /\ calls < MaxCalls
    /\ \E m \in {BeginMachine(memory, input_buffer)} :
        /\ memory' = m.memory
        /\ pointer' = m.pointer
        /\ output_buffer' = m.output_buffer
        /\ input_buffer' = m.input_buffer
        /\ pc' = m.pc
    /\ phase' = "running"
    /\ calls' = calls + 1
    /\ start_memory' = memory
    /\ emitted' = << >>
    /\ last_read' = NoRead
    /\ UNCHANGED <<instructions, to_close, to_open, result, compiled, src,
                   end_memory, recompiled>>

Machine ==
    [memory |-> memory, pointer |-> pointer, pc |-> pc,
     output_buffer |-> output_buffer, input_buffer |-> input_buffer,
     status |-> "Ok"]

\* The instruction at pc reads the live input source.
ReadsLive == instructions[pc + 1] = "Input" /\ input_buffer = << >>

\* The reads the instruction at pc can make of the live input source.
ReadsAt ==
    IF ReadsLive
    THEN InputOutcomes
    ELSE {[kind |-> "eof", byte |-> 0]}

\* One iteration of execute's loop; an error ends the call.
ExecuteStep ==
    /\ phase = "running"
    /\ pc < Len(instructions)
    /\ \E inp \in ReadsAt :
        \E m \in {Step(instructions, to_close, to_open, Machine, inp)} :
          /\ last_read' = IF ReadsLive THEN inp ELSE last_read
          /\ Len(m.output_buffer) <= MaxOutput
          /\ memory' = m.memory
          /\ pointer' = m.pointer
          /\ pc' = m.pc
          /\ output_buffer' = m.output_buffer
          /\ input_buffer' = m.input_buffer
          /\ IF m.status = "Ok"
             THEN UNCHANGED <<phase, result, end_memory, recompiled>>
             ELSE /\ phase' = "idle"
                  /\ result' = [op |-> "execute", kind |-> m.status, pos |-> -1]
                  /\ end_memory' = m.memory
                  /\ recompiled' = FALSE
    /\ emitted' = IF instructions[pc + 1] = "Output"
                  THEN Append(emitted, memory[pointer])
                  ELSE emitted
    /\ UNCHANGED <<instructions, to_close, to_open, compiled, src, calls,
                   start_memory>>

\* The loop ends: execute returns the output.
ExecuteReturn ==
    /\ phase = "running"
    /\ pc >= Len(instructions)
    /\ phase' = "idle"
    /\ result' = OkResult("execute")
    /\ end_memory' = memory
    /\ recompiled' = FALSE
    /\ UNCHANGED <<memory, pointer, instructions, to_close, to_open,
                   input_buffer, output_buffer, pc, compiled, src, calls,
                   start_memory, emitted, last_read>>

Next ==
    \/ \E source \in Sources : Compile(source)
    \/ ExecuteBegin
    \/ ExecuteStep
    \/ ExecuteReturn

Spec == Init /\ [][Next]_vars

\* One source compiled on a fresh interpreter whose tape an earlier
\* execution left, then executed: src is the source about to be compiled.
InitOn(tapes, sources) ==
    /\ memory \in tapes
    /\ pointer = 0
    /\ instructions = << >>
    /\ to_close = << >>
    /\ to_open = << >>
    /\ input_buffer = << >>
    /\ output_buffer = << >>
    /\ pc = 0
    /\ phase = "idle"
    /\ result = [op |-> "new", kind |-> "Ok", pos |-> -1]
    /\ compiled = "none"
    /\ src \in sources
    /\ calls = 0
    /\ start_memory = memory
    /\ end_memory = memory
    /\ recompiled = TRUE
    /\ emitted = << >>
    /\ last_read = NoRead

InitFresh == InitOn(StartTapes, FreshSources)

CompileFirst == result.op = "new" /\ Compile(src)

ExecuteCompiled == result.op # "new" /\ ExecuteBegin

NextFresh ==
    \/ CompileFirst
    \/ ExecuteCompiled
    \/ ExecuteStep
    \/ ExecuteReturn

SpecFresh == InitFresh /\ [][NextFresh]_vars

\* Every value an earlier execution can leave in cell 0.
AnyCellTapes == {[ZeroTape EXCEPT ![0] = v] : v \in Cell}

\* "+[-]": execute's loop always goes on to its next iteration, and to its
\* return once the loop ends.
ZeroLoopSource == <<"+", "[", "-", "]">>

SpecZeroLoop ==
    /\ InitOn(AnyCellTapes, {ZeroLoopSource})
    /\ [][NextFresh]_vars
    /\ WF_vars(ExecuteStep)
    /\ WF_vars(ExecuteReturn)

\* Programs without brackets next to the example programs: execute's loop
\* always goes on to its next iteration, and to its return once it ends.
StraightSources ==
    SeqsUpTo(Chars \ {"[", "]"}, MaxStraightLen) \cup Examples

SpecStraight ==
    /\ InitOn(StartTapes, StraightSources)
    /\ [][NextFresh]_vars
    /\ WF_vars(ExecuteStep)
    /\ WF_vars(ExecuteReturn)

\* As many "+" as a cell has values, and a single "-".
WrapSources == {[k \in 1 .. CellMod |-> "+"], <<"-">>}

SpecWrap == InitOn(AnyCellTapes, WrapSources) /\ [][NextFresh]_vars

\* ----------------------------------------------------- reading a source

\* Number of k in a .. b with s[k] = c.
Count(s, c, a, b) == Cardinality({k \in a .. b : s[k] = c})

\* Opening minus closing brackets among the first n characters of s.
Depth(s, n) == Count(s, "[", 1, n) - Count(s, "]", 1, n)

\* Some closing bracket of s has no pending opening bracket.
HasUnmatchedClose(s) == \E n \in 1 .. Len(s) : Depth(s, n) < 0

WellBracketed(s) == ~HasUnmatchedClose(s) /\ Depth(s, Len(s)) = 0

\* s without the characters that are no instruction symbol.
Strip(s) == SelectSeq(s, LAMBDA c : c \in SymbolChars)

\* The instruction position of the JumpIfNotZero matching the JumpIfZero at
\* instruction position p: the first position after p where the brackets
\* from p on balance.
Balance(instrs, p, q) ==
    Count(instrs, "JumpIfZero", p + 1, q + 1)
        - Count(instrs, "JumpIfNotZero", p + 1, q + 1)

Matching(instrs, p) ==
    CHOOSE q \in p .. (Len(instrs) - 1) :
        /\ Balance(instrs, p, q) = 0
        /\ \A r \in p .. (q - 1) : Balance(instrs, p, r) > 0

\* compile(s) on an interpreter just created.
FreshCompile(s) ==
    CompileFrom(s, CompileStart(<< >>, << >>, << >>))

\* execute's loop from machine m, for at most fuel iterations, in a program
\* that reads no input.
RECURSIVE RunPure(_, _, _, _, _)
RunPure(instrs, tc, to, m, fuel) ==
    IF m.status # "Ok" \/ m.pc >= Len(instrs) \/ fuel = 0
    THEN m
    ELSE RunPure(instrs, tc, to,
                 Step(instrs, tc, to, m, [kind |-> "eof", byte |-> 0]),
                 fuel - 1)

Returned == phase = "idle" /\ result.op = "execute"

\* ----------------------------------------------------------------- claims

\* C1: for every well-bracketed source, compile returns Ok and, for every
\* JumpIfZero at instruction position p, to_close[p] is the instruction
\* position q of its matching JumpIfNotZero and to_open[q] = p.
C1_JumpTableByInstructionPosition ==
    (result.op = "compile" /\ WellBracketed(src)) =>
        /\ result.kind = "Ok"
        /\ \A p \in 0 .. (Len(instructions) - 1) :
              instructions[p + 1] = "JumpIfZero" =>
                  LET q == Matching(instructions, p) IN
                  /\ p < Len(to_close)
                  /\ to_close[p + 1] = q
                  /\ q < Len(to_open)
                  /\ to_open[q + 1] = p

\* C2: for every well-bracketed source s (here: one that reads no input)
\* and every starting tape, compile(s) and execute() end with the same
\* result, output buffer, tape and pointer as compile and execute of s
\* without its comment characters (here: when that execution ends within
\* RunFuel steps).
C2_CommentsChangeNothing ==
    (Returned /\ WellBracketed(src) /\ \A k \in 1 .. Len(src) : src[k] # ",") =>
        LET c == FreshCompile(Strip(src))
            r == RunPure(c.instructions, c.to_close, c.to_open,
                         BeginMachine(start_memory, << >>), RunFuel)
        IN  (r.status # "Ok" \/ r.pc >= Len(c.instructions)) =>
                /\ result.kind = r.status
                /\ output_buffer = r.output_buffer
                /\ memory = r.memory
                /\ pointer = r.pointer

\* C3: after a successful compile no execute call returns the
\* "Jump table out of bounds" error.
C3_NoJumpTableError ==
    compiled = "Ok" => ~(result.op = "execute" /\ result.kind = "JumpTableOOB")

\* A jump is about to be taken, through the table, in a successfully
\* compiled program whose source holds a comment character.
C3_Witness ==
    /\ compiled = "Ok"
    /\ phase = "running"
    /\ pc < Len(instructions)
    /\ instructions[pc + 1] = "JumpIfNotZero"
    /\ memory[pointer] # 0
    /\ src # << >>
    /\ src[1] = CommentChar

\* C4: an execute call that follows an execute call with no compile in
\* between starts on the tape the earlier call left, with the pointer at 0
\* and the output buffer empty, and the output buffer of an execution holds
\* the bytes emitted during that execution only.
C4_SecondExecution ==
    /\ [][(phase = "idle" /\ phase' = "running" /\ ~recompiled) =>
              (memory' = end_memory /\ pointer' = 0 /\ output_buffer' = << >>)]_vars
    /\ [](result.op # "new" => output_buffer = emitted)

\* A second execution in a row runs on a tape the first one changed, after
\* the first one emitted output, and has emitted a byte itself.
C4_Witness ==
    /\ phase = "running"
    /\ ~recompiled
    /\ start_memory # ZeroTape
    /\ start_memory = end_memory
    /\ Len(emitted) = 1

\* C5: the pointer is always within 0 .. MEMORY_SIZE-1; Left with the
\* pointer at 0 and Right with the pointer at MEMORY_SIZE-1 leave the
\* pointer unchanged, raise no error and advance the program counter by 1.
C5_PointerClamped ==
    /\ [](pointer \in 0 .. (MEMORY_SIZE - 1))
    /\ [][(/\ phase = "running"
           /\ pc < Len(instructions)
           /\ \/ instructions[pc + 1] = "Left" /\ pointer = 0
              \/ instructions[pc + 1] = "Right" /\ pointer = MEMORY_SIZE - 1)
          => (pointer' = pointer /\ pc' = pc + 1 /\ phase' = "running")]_vars

\* Right has just been executed with the pointer at the last cell.
C5_Witness ==
    /\ phase = "running"
    /\ pc = 2
    /\ instructions[1] = "MoveHigh"
    /\ instructions[2] = "Right"
    /\ pointer = MEMORY_SIZE - 1

\* The source position of the first closing bracket of s with no pending
\* opening bracket.
FirstUnmatchedClose(s) ==
    (CHOOSE n \in 1 .. Len(s) :
        Depth(s, n) < 0 /\ \A k \in 1 .. (n - 1) : Depth(s, k) >= 0) - 1

\* C6: for every source in which some closing bracket has no pending
\* opening bracket, compile fails with the unmatched-closing-bracket error
\* at the first such bracket, reports its source position, and processes
\* no later character.
C6_UnmatchedClose ==
    (result.op = "compile" /\ HasUnmatchedClose(src)) =>
        /\ result.kind = "UnmatchedClose"
        /\ result.pos = FirstUnmatchedClose(src)
        /\ Len(instructions) =
               Len(Strip(SubSeq(src, 1, FirstUnmatchedClose(src) + 1)))

\* compile failed at a closing bracket that follows a comment character,
\* with a character after it.
C6_Witness ==
    /\ result.op = "compile"
    /\ result.kind = "UnmatchedClose"
    /\ result.pos = 2
    /\ src[1] = CommentChar
    /\ Len(src) > 3

\* The source positions of the opening brackets of s that no closing
\* bracket matches.
UnmatchedOpens(s) ==
    {n - 1 : n \in {n \in 1 .. Len(s) :
        /\ s[n] = "["
        /\ \A k \in n .. Len(s) :
              Count(s, "[", n, k) - Count(s, "]", n, k) > 0}}

Min(S) == CHOOSE a \in S : \A b \in S : a <= b

\* C7: for every source with no unmatched closing bracket and an opening
\* bracket left pending, compile fails with the unmatched-opening-bracket
\* error and reports the position of the earliest unmatched opening bracket.
C7_UnmatchedOpen ==
    (/\ result.op = "compile"
     /\ ~HasUnmatchedClose(src)
     /\ UnmatchedOpens(src) # {}) =>
        /\ result.kind = "UnmatchedOpen"
        /\ result.pos = Min(UnmatchedOpens(src))

\* compile failed with two opening brackets pending, the earlier one
\* after a matched pair.
C7_Witness ==
    /\ result.op = "compile"
    /\ result.kind = "UnmatchedOpen"
    /\ Cardinality(UnmatchedOpens(src)) = 2
    /\ result.pos = 2

\* C8: for every value of cell 0, "+[-]" compiles and every execution of it
\* terminates, with the active cell 0 and the output buffer empty.
C8_ZeroLoopTerminates ==
    /\ [](result.op = "compile" => result.kind = "Ok")
    /\ (phase = "running") ~> Returned
    /\ [](Returned => (result.kind = "Ok" /\ memory[pointer] = 0
                          /\ output_buffer = << >>))

\* An execution that began with 200 in cell 0 has returned.
C8_Witness == Returned /\ start_memory[0] = 200 /\ memory[0] = 0

\* C9: after any sequence of earlier calls, a successful compile(s) leaves
\* the program and the jump table that compile(s) leaves on an interpreter
\* just created.
C9_CompileNotAdditive ==
    (result.op = "compile" /\ result.kind = "Ok") =>
        LET f == FreshCompile(src) IN
        /\ instructions = f.instructions
        /\ to_close = f.to_close
        /\ to_open = f.to_open

\* A successful compile of a program with a loop, after an execution of an
\* earlier program that changed the tape.
C9_Witness ==
    /\ result.op = "compile"
    /\ result.kind = "Ok"
    /\ calls >= 3
    /\ end_memory # ZeroTape
    /\ to_close # << >>

\* C10: Increment leaves (v+1) mod 256 and Decrement (v-1) mod 256 in the
\* active cell, with no error, so that 256 Increment instructions in a row
\* leave the tape as it was.
C10_CellsWrap ==
    /\ [][(/\ phase = "running"
           /\ pc < Len(instructions)
           /\ instructions[pc + 1] = "Increment")
          => (/\ memory' = [memory EXCEPT ![pointer] = (@ + 1) % 256]
              /\ phase' = "running")]_vars
    /\ [][(/\ phase = "running"
           /\ pc < Len(instructions)
           /\ instructions[pc + 1] = "Decrement")
          => (/\ memory' = [memory EXCEPT ![pointer] = (@ - 1) % 256]
              /\ phase' = "running")]_vars
    /\ [](Returned /\ Len(instructions) = 256 => memory = start_memory)

\* 256 Increment instructions have been executed on an empty cell.
C10_Witness ==
    /\ Returned
    /\ Len(instructions) = 256
    /\ pc = 256
    /\ start_memory[0] = 0
    /\ memory[0] = 0

\* The instruction at pc is about to be executed.
At(instr) ==
    phase = "running" /\ pc < Len(instructions) /\ instructions[pc + 1] = instr

\* C11: Copy with the pointer p below the last cell sets cell p+1 to cell p
\* and changes nothing else; at the last cell it changes no cell; it never
\* fails.  "+$>." on a zero tape emits one byte, the value Increment wrote.
C11_CopyToNext ==
    /\ [][At("Copy") =>
              /\ memory' = IF pointer < MEMORY_SIZE - 1
                           THEN [memory EXCEPT ![pointer + 1] = memory[pointer]]
                           ELSE memory
              /\ pointer' = pointer
              /\ phase' = "running"]_vars
    /\ [](Returned /\ src = <<"+", "$", ">", ".">> =>
              /\ result.kind = "Ok"
              /\ output_buffer = <<(start_memory[0] + 1) % 256>>
              /\ (start_memory = ZeroTape => output_buffer = <<1>>))

\* "+$>." has been executed on a zero tape.
C11_Witness ==
    /\ Returned
    /\ src = <<"+", "$", ">", ".">>
    /\ start_memory = ZeroTape
    /\ memory[1] = 1
    /\ pointer = 1

\* C12: when an execution ends the output buffer is the sequence of the
\* active cell's values at its Output instructions, in order; "++." on a
\* zero tape yields the one byte 2.
C12_OutputIsEmitted ==
    /\ Returned => output_buffer = emitted
    /\ (Returned /\ src = <<"+", "+", ".">> /\ start_memory = ZeroTape) =>
           output_buffer = <<2>>

\* "++." has been executed on a zero tape.
C12_Witness ==
    /\ Returned
    /\ src = <<"+", "+", ".">>
    /\ start_memory = ZeroTape
    /\ emitted = <<2>>

\* C13: an Input executed with an empty input buffer whose read of the live
\* source reports end of input stores 0 in the active cell, advances pc by
\* one and does not fail; execute returns the input error exactly when the
\* read fails.
C13_InputAtEof ==
    /\ [][(At("Input") /\ input_buffer = << >>) =>
              /\ last_read'.kind = "eof" =>
                     /\ memory' = [memory EXCEPT ![pointer] = 0]
                     /\ pointer' = pointer
                     /\ pc' = pc + 1
                     /\ phase' = "running"
                     /\ result' = result
              /\ last_read'.kind = "error" <=>
                     (phase' = "idle" /\ result'.kind = "InputError")]_vars
    /\ [](Returned => (result.kind = "InputError" <=> last_read.kind = "error"))

\* An Input on a nonzero cell has just read end of input and execution goes on.
C13_Witness ==
    /\ phase = "running"
    /\ last_read.kind = "eof"
    /\ pc = 1
    /\ instructions[1] = "Input"
    /\ start_memory[0] # 0
    /\ memory[0] = 0

\* The instruction each recognized symbol stands for.
InstructionOf(c) ==
    IF c = "[" THEN "JumpIfZero"
    ELSE IF c = "]" THEN "JumpIfNotZero"
    ELSE SimpleInstruction(c)

\* The instructions of the recognized symbols of s, in order.
Translation(s) ==
    [k \in 1 .. Len(Strip(s)) |-> InstructionOf(Strip(s)[k])]

\* C14: after a compile that fails the program is exactly the instructions
\* of the recognized symbols read before the error: those up to and
\* including the bracket for an unmatched closing bracket, those of the
\* whole source for an unmatched opening bracket; nothing of the previous
\* program remains.
C14_ProgramAfterFailedCompile ==
    /\ (result.op = "compile" /\ result.kind = "UnmatchedClose") =>
           instructions = Translation(SubSeq(src, 1, result.pos + 1))
    /\ (result.op = "compile" /\ result.kind = "UnmatchedOpen") =>
           instructions = Translation(src)

\* compile failed at a closing bracket after an earlier program was
\* compiled and executed.
C14_Witness ==
    /\ result.op = "compile"
    /\ result.kind = "UnmatchedClose"
    /\ end_memory # ZeroTape
    /\ src = <<"+", "]", "[">>
    /\ instructions = <<"Increment", "JumpIfNotZero">>

\* The program holds no bracket instruction.
NoBracket(instrs) ==
    \A k \in 1 .. Len(instrs) : instrs[k] \notin {"JumpIfZero", "JumpIfNotZero"}

\* C15 as stated: the execution of a program with no bracket instruction
\* returns Ok with pc at the program's length.
C15_BracketFreeReturnsOk ==
    (Returned /\ NoBracket(instructions)) =>
        (result.kind = "Ok" /\ pc = Len(instructions))

\* C15, amended: the execution of a program with no bracket instruction
\* starts at pc = 0, each instruction advances pc by exactly one unless it
\* is an Input whose read of the live source fails, and the execution comes
\* to an end: with Ok and pc at the program's length, or, after a failed
\* read, with the input error.  The empty program returns Ok with empty
\* output and the tape unchanged.
C15_BracketFreeTerminates ==
    /\ [][(phase = "idle" /\ phase' = "running") => pc' = 0]_vars
    /\ [][(phase = "running" /\ pc < Len(instructions)
              /\ NoBracket(instructions)) =>
              \/ pc' = pc + 1 /\ phase' = "running" /\ last_read'.kind # "error"
              \/ /\ At("Input") /\ last_read'.kind = "error"
                 /\ phase' = "idle" /\ result'.kind = "InputError"]_vars
    /\ []((Returned /\ NoBracket(instructions)) =>
              IF last_read.kind = "error"
              THEN result.kind = "InputError"
              ELSE result.kind = "Ok" /\ pc = Len(instructions))
    /\ []((Returned /\ instructions = << >>) =>
              (result.kind = "Ok" /\ output_buffer = << >>
                  /\ memory = start_memory))
    /\ (phase = "running" /\ NoBracket(instructions)) ~> Returned

\* A program of several instructions, none a bracket, one an Input that
\* read a byte, has returned Ok.
C15_Witness ==
    /\ Returned
    /\ NoBracket(instructions)
    /\ Len(instructions) > 2
    /\ pc = Len(instructions)
    /\ result.kind = "Ok"
    /\ last_read.kind = "byte"

\* The source positions of the opening and of the closing brackets of s.
Opens(s) == {k - 1 : k \in {k \in 1 .. Len(s) : s[k] = "["}}

Closes(s) == {k - 1 : k \in {k \in 1 .. Len(s) : s[k] = "]"}}

\* The pairs the jump table holds for the opening brackets of s.
Recorded(s, tc) == {<<o, tc[o + 1]>> : o \in {o \in Opens(s) : o < Len(tc)}}

\* C16: after a successful compile every opening bracket has a recorded
\* pair (o, c) with to_close[o] = c, to_open[c] = o and o < c, every closing
\* bracket is in one, and two pairs (o1, c1), (o2, c2) with o1 < o2 are
\* disjoint (c1 < o2) or nested (c2 < c1).
C16_TablesInverseAndNested ==
    (result.op = "compile" /\ result.kind = "Ok") =>
        LET pairs == Recorded(src, to_close) IN
        /\ {p[1] : p \in pairs} = Opens(src)
        /\ {p[2] : p \in pairs} = Closes(src)
        /\ \A p \in pairs :
              /\ p[1] < p[2]
              /\ p[2] < Len(to_open)
              /\ to_open[p[2] + 1] = p[1]
        /\ \A p, q \in pairs :
              p[1] < q[1] => (p[2] < q[1] \/ q[2] < p[2])

\* compile succeeded on a source with a pair inside another.
C16_Witness ==
    /\ result.op = "compile"
    /\ result.kind = "Ok"
    /\ \E p, q \in Recorded(src, to_close) : p[1] < q[1] /\ q[2] < p[2]

\* C17: a compile call, whether it succeeds or fails, leaves the tape, the
\* data pointer, the input buffer and the output buffer as they were.
C17_CompileFrame ==
    [][(phase = "idle" /\ phase' = "idle" /\ calls' = calls + 1) =>
          /\ result'.op = "compile"
          /\ memory' = memory
          /\ pointer' = pointer
          /\ input_buffer' = input_buffer
          /\ output_buffer' = output_buffer]_vars

\* compile has failed on an interpreter whose last execution moved the
\* pointer, changed the tape and wrote output, all still there.
C17_Witness ==
    /\ result.op = "compile"
    /\ result.kind # "Ok"
    /\ pointer # 0
    /\ memory # ZeroTape
    /\ output_buffer # << >>

\* C18: the input buffer is empty in every state that new, compile and
\* execute calls reach, so every Input instruction that is executed reads
\* the live input source.
C18_InputBufferEmpty ==
    /\ input_buffer = << >>
    /\ At("Input") => ReadsLive

\* A second execution has ended whose Input read a byte from the live
\* source.
C18_Witness ==
    /\ Returned
    /\ calls >= 3
    /\ last_read.kind = "byte"
    /\ memory[pointer] = last_read.byte

\* The bracket pairs of s, as source positions: an opening bracket and the
\* first closing bracket after it at which the brackets between balance.
PairsOf(s) ==
    {p \in (0 .. (Len(s) - 1)) \X (0 .. (Len(s) - 1)) :
        /\ p[1] < p[2]
        /\ s[p[1] + 1] = "["
        /\ s[p[2] + 1] = "]"
        /\ Count(s, "[", p[1] + 1, p[2] + 1) = Count(s, "]", p[1] + 1, p[2] + 1)
        /\ \A k \in (p[1] + 1) .. p[2] :
              Count(s, "[", p[1] + 1, k) > Count(s, "]", p[1] + 1, k)}

\* The part of its source the last compile call read before it returned.
SourceRead ==
    IF result.kind = "UnmatchedClose" THEN SubSeq(src, 1, result.pos) ELSE src

Max(a, b) == IF a >= b THEN a ELSE b

\* C19 as stated: after compile has recorded a pair (o, c), both tables are
\* longer than the larger of o and c.
C19_BothTablesReachBoth ==
    result.op = "compile" =>
        \A p \in PairsOf(SourceRead) :
            /\ Len(to_close) > Max(p[1], p[2])
            /\ Len(to_open) > Max(p[1], p[2])

\* C19, amended: after compile has recorded a pair (o, c), to_close is
\* longer than o and holds c there, and to_open is longer than c, hence
\* than both positions, and holds o there.
C19_TablesReachTheirKeys ==
    result.op = "compile" =>
        \A p \in PairsOf(SourceRead) :
            /\ Len(to_close) > p[1]
            /\ to_close[p[1] + 1] = p[2]
            /\ Len(to_open) > Max(p[1], p[2])
            /\ to_open[p[2] + 1] = p[1]

\* compile has recorded a pair whose closing position to_close does not
\* reach, and then failed.
C19_Witness ==
    /\ result.op = "compile"
    /\ result.kind # "Ok"
    /\ \E p \in PairsOf(SourceRead) :
          /\ Len(to_close) <= p[2]
          /\ to_close[p[1] + 1] = p[2]
          /\ to_open[p[2] + 1] = p[1]

====
